---- MODULE Spec2Model ----
(***************************************************************************)
(* The S-52 GL renderer (src/S52GL.c, GLES2 build with VBO, without RADAR) *)
(* as a state machine: the render cycle begin/end, the hand-made matrix    *)
(* stacks, the framebuffer snapshot used by the LAST cycle, the colour     *)
(* index cursor pick, and the per-primitive GPU buffer cache.              *)
(*                                                                         *)
(* Every C function is an operator from a state record to a state record,  *)
(* so that a handler is the composition of the calls it makes.  The public *)
(* entry points are the actions.  g_assert(0) aborts the process when      *)
(* asserts are compiled in and is a no-op when they are compiled out; the  *)
(* build is chosen in Init and never changes.                              *)
(***************************************************************************)
EXTENDS Integers, Sequences, FiniteSets, TLC

\* ------------------------------------------------------------- bounds
NObj      == 2     \* objects of the scene
MaxDraw   == 2     \* S52_GL_draw calls between two begin calls
MaxVP     == 1     \* viewport sizes (in units of one pixel buffer)
MaxBad    == 1     \* begin / end calls the host makes out of sync
WrapObj   == 258   \* objects of the long PICK scene (SpecWrap)
WrapCover == 1     \* objects of the long scene lying under the cursor
MaxSpan   == 2     \* spans of a primitive built through the S57_prim calls
MaxVert   == 3     \* vertices of a primitive built through the S57_prim calls
MaxCoord  == 2     \* coordinates of a vertex, of a position: 1 .. MaxCoord
MaxCmd    == 2     \* commands of the vector program of a symbol
MaxGeo    == 3     \* points of a line or of a ring; features a feature can touch
MaxExt    == 1     \* finite coordinates of an extent: -MaxExt .. MaxExt
MaxAtlas  == 5     \* width and height of the texture atlas
MaxRegion == 3     \* width and height of a region asked for: 0 .. MaxRegion
MaxRegions == 3    \* regions asked for between two clears of the atlas
MaxClip   == 2     \* coordinates of a segment to clip: -1 .. MaxClip

\* -------------------------------------------------- program constants
MATRIX_STACK_MAX == 8
GLubyteSize      == 256

S52_GL_NONE == "NONE"
S52_GL_DRAW == "DRAW"
S52_GL_LAST == "LAST"
S52_GL_PICK == "PICK"
S52_GL_cycle == {S52_GL_DRAW, S52_GL_LAST, S52_GL_PICK}

GL_MODELVIEW  == "GL_MODELVIEW"
GL_PROJECTION == "GL_PROJECTION"

S52_CMD_ARE_CO == "AC"
S52_CMD_CND_SY == "CS"
S52_CMD_TXT_TX == "TX"

\* the modes of a span: _QUADRIC_TRANSLATE is not a mode of glDrawArrays()
_QUADRIC_TRANSLATE == "_QUADRIC_TRANSLATE"
PrimModes == {"GL_LINES", "GL_TRIANGLES", _QUADRIC_TRANSLATE}


\* attribute values: a pointer to no GString, the value of an omitted mandatory
\* attribute, the attribute names and the values of the features
NULL_               == "NULL"
EMPTY_NUMBER_MARKER == "2147483641"
AttNames == {"OBJNAM", "DRVAL1"}
AttVals  == {"", EMPTY_NUMBER_MARKER, "5"}

\* the objects of the scene, and of the long scene of SpecWrap
Objs     == 0 .. NObj - 1
WrapObjs == 1 .. WrapObj

VARIABLES
    assertOn,            \* build: g_assert compiled in
    proc,                \* "run", "abort" (g_assert fired), "ub" (out of bounds access)
    _doInit, _ctxValidated, _symbCreated,
    _objPick, _objPickNULL,
    _crnt_GL_cycle, _GL_BEGIN, _identity_MODELVIEW,
    _mode, _mvmTop, _pjmTop, _crntMat,
    _mvm, _pjm,          \* the matrices of the two stacks
    _north, _vp, _fb_pixels, _fb_pixels_size,
    _fb_update,
    fb,                  \* the framebuffer: who drew into it, red value in the pick region
    tex,                 \* the texture _fb_texture_id : the snapshot of the framebuffer
    _cIdx,               \* _cIdx.color.r
    DList,               \* prim->DList of the primitive of each object
    glBuffers,           \* buffer names alive in the GL context
    uploads,             \* glBufferData calls for a primitive since its handle was last 0
    highlight,           \* geo->highlight of each object
    drawn,               \* the S52_GL_draw calls since the last begin:
                         \* <<object, _cIdx.color.r, index found by glReadPixels()>>
    hostCycle,           \* the cycle the host has open, by its own begin / end calls
    nBad,                \* begin / end calls the host made out of sync
    S57_prim,            \* an S57_prim: the spans (list) and the vertices (vertex)
    geo,                 \* an S57_geo: attributes, touch references, geometry size, extent
    glDraw,              \* the spans and translations the last call sent to the GPU
    _centroids,          \* the centroids _computeCentroid() found last
    sy,                  \* the _renderSY() calls of the cycle before (prev) and of this
                         \* cycle (crnt): what each was given and sent to the GPU
    PJ,                 \* the projection of S57data.c: _doInit, _pjsrc, _pjdst, _pjstr
    _pmin,               \* projected view rectangle, South-West corner
    _pmax,               \* projected view rectangle, North-East corner
    atlas,               \* the glyph texture atlas: skyline nodes, regions handed out since creation or clear
    idWrong,             \* a matrix operation has left _identity_MODELVIEW set over a
                         \* top modelview matrix that is not the identity
    op, ret, gl          \* last public call, its return value, the buffer calls it made

vars == <<assertOn, proc, _doInit, _ctxValidated, _symbCreated, _objPick, _objPickNULL,
          _crnt_GL_cycle, _GL_BEGIN, _identity_MODELVIEW, _mode, _mvmTop, _pjmTop,
          _crntMat, _north, _vp, _fb_pixels, _fb_pixels_size, _fb_update, fb, tex,
          _cIdx, DList, glBuffers, uploads, highlight, drawn, hostCycle, nBad, op, ret, gl,
          _mvm, _pjm, S57_prim, geo, glDraw, idWrong,
          PJ, atlas, _pmax, _pmin, _centroids, sy>>

State ==
    [assertOn |-> assertOn, proc |-> proc, _doInit |-> _doInit,
     _ctxValidated |-> _ctxValidated, _symbCreated |-> _symbCreated,
     _objPick |-> _objPick, _objPickNULL |-> _objPickNULL,
     _crnt_GL_cycle |-> _crnt_GL_cycle, _GL_BEGIN |-> _GL_BEGIN,
     _identity_MODELVIEW |-> _identity_MODELVIEW, _mode |-> _mode,
     _mvmTop |-> _mvmTop, _pjmTop |-> _pjmTop, _crntMat |-> _crntMat,
     _north |-> _north, _vp |-> _vp, _fb_pixels |-> _fb_pixels,
     _fb_pixels_size |-> _fb_pixels_size, _fb_update |-> _fb_update,
     fb |-> fb, tex |-> tex, _cIdx |-> _cIdx, DList |-> DList,
     glBuffers |-> glBuffers, uploads |-> uploads, highlight |-> highlight,
     drawn |-> drawn, hostCycle |-> hostCycle, nBad |-> nBad, op |-> op, ret |-> ret, gl |-> gl,
     _mvm |-> _mvm, _pjm |-> _pjm, prim |-> S57_prim, geo |-> geo, glDraw |-> glDraw,
     PJ |-> PJ, atlas |-> atlas, _pmax |-> _pmax, _pmin |-> _pmin, idWrong |-> idWrong, _centroids |-> _centroids, sy |-> sy]

Becomes(t) ==
    /\ assertOn' = t.assertOn /\ proc' = t.proc /\ _doInit' = t._doInit
    /\ _ctxValidated' = t._ctxValidated /\ _symbCreated' = t._symbCreated
    /\ _objPick' = t._objPick /\ _objPickNULL' = t._objPickNULL
    /\ _crnt_GL_cycle' = t._crnt_GL_cycle /\ _GL_BEGIN' = t._GL_BEGIN
    /\ _identity_MODELVIEW' = t._identity_MODELVIEW /\ _mode' = t._mode
    /\ _mvmTop' = t._mvmTop /\ _pjmTop' = t._pjmTop /\ _crntMat' = t._crntMat
    /\ _north' = t._north /\ _vp' = t._vp /\ _fb_pixels' = t._fb_pixels
    /\ _fb_pixels_size' = t._fb_pixels_size /\ _fb_update' = t._fb_update
    /\ fb' = t.fb /\ tex' = t.tex /\ _cIdx' = t._cIdx /\ DList' = t.DList
    /\ glBuffers' = t.glBuffers /\ uploads' = t.uploads /\ highlight' = t.highlight
    /\ drawn' = t.drawn /\ hostCycle' = t.hostCycle /\ nBad' = t.nBad
    /\ op' = t.op /\ ret' = t.ret /\ gl' = t.gl
    /\ _mvm' = t._mvm /\ _pjm' = t._pjm /\ S57_prim' = t.prim /\ geo' = t.geo
    /\ glDraw' = t.glDraw /\ idWrong' = t.idWrong
    /\ PJ' = t.PJ /\ atlas' = t.atlas /\ _pmax' = t._pmax /\ _pmin' = t._pmin
    /\ _centroids' = t._centroids /\ sy' = t.sy

\* ------------------------------------------------------------ helpers
TRUE_  == 1
FALSE_ == 0
NoRet  == -1

\* The statement t runs only while the process runs.
Run(s, t) == IF s.proc = "run" THEN t ELSE s

\* g_assert(0)
g_assert0(s) == Run(s, IF s.assertOn THEN [s EXCEPT !.proc = "abort"] ELSE s)

\* return v from a public call
Return(s, v) == Run(s, [s EXCEPT !.ret = v])

\* entry of a public call
Call(s, name, cycle, obj) ==
    [s EXCEPT !.op = [name |-> name, cycle |-> cycle, obj |-> obj, oos |-> FALSE],
              !.ret = NoRet, !.gl = <<>>, !.glDraw = <<>>]

\* the command words of the objects of the scene (S52_PL_iniCmd / S52_PL_getCmdNext)
CmdOf(obj) ==
    CASE obj = 0     -> <<S52_CMD_CND_SY, S52_CMD_ARE_CO>>
      [] obj % 2 = 1 -> <<S52_CMD_ARE_CO>>
      [] OTHER       -> <<S52_CMD_TXT_TX, S52_CMD_ARE_CO>>

\* S57_getGeoID() of the geo of an object (0 is no object)
S57_getGeoID(obj) == obj + 1

\* ------------------------------------------------------- matrix stack
\* A 4x4 matrix is the sequence of the factors multiplied onto the identity, a factor
\* being <<kind, argument>>: translation "T", scale "S", rotation on Z "R", ortho "O";
\* the all-zero matrix of the static arrays is ZeroMat.
Identity == <<>>
ZeroMat  == << <<"0", 0>> >>

\* translation by 0, scale by 1 and rotation by 0 are the identity matrix
IdentityMatrices == {<<"T", 0>>, <<"S", 1>>, <<"R", 0>>}

\* the slots of a stack
MatrixSlots == 0 .. MATRIX_STACK_MAX - 1

\* _crntMat points to a slot of one of the two arrays
ValidMat(ptr) == ptr[1] \in {GL_MODELVIEW, GL_PROJECTION} /\ ptr[2] \in MatrixSlots

\* the product of the multiplication of m by n
_multiply(m, n) == IF m = ZeroMat \/ n \in IdentityMatrices THEN m ELSE Append(m, n)

\* the watch on the optimisation flag, after each operation on the matrices
FlagWatch(s) ==
    [s EXCEPT !.idWrong = @ \/ (/\ s._identity_MODELVIEW
                                /\ s._mvmTop \in MatrixSlots
                                /\ s._mvm[s._mvmTop] # Identity)]

\* *_crntMat = m, then the optimisation flag is set to id in mode GL_MODELVIEW;
\* a write through a pointer that is NULL or past the array is undefined
StoreMat(s, ptr, m, id) ==
    IF s.proc # "run"
    THEN s
    ELSE IF ~ValidMat(ptr)
         THEN [s EXCEPT !.proc = "ub"]
         ELSE FlagWatch(
              [s EXCEPT !._mvm = IF ptr[1] = GL_MODELVIEW THEN [@ EXCEPT ![ptr[2]] = m] ELSE @,
                        !._pjm = IF ptr[1] = GL_MODELVIEW THEN @ ELSE [@ EXCEPT ![ptr[2]] = m],
                        !._identity_MODELVIEW = IF s._mode = GL_MODELVIEW THEN id ELSE @])

\* _multiply(_crntMat, n), then the flag is set to id in mode GL_MODELVIEW
MultMat(s, n, id) ==
    LET ptr == s._crntMat
        m   == IF ptr[1] = GL_MODELVIEW THEN s._mvm[ptr[2]] ELSE s._pjm[ptr[2]]
    IN  StoreMat(s, ptr, IF ValidMat(ptr) THEN _multiply(m, n) ELSE Identity, id)

_glMatrixMode(s, mode) ==
    Run(s, [s EXCEPT !._mode = mode,
                     !._crntMat = IF mode = GL_MODELVIEW
                                  THEN <<GL_MODELVIEW, s._mvmTop>>
                                  ELSE <<GL_PROJECTION, s._pjmTop>>])

_glPushMatrix(s) ==
    LET inc(x) == Run(x, IF x._mode = GL_MODELVIEW
                         THEN [x EXCEPT !._mvmTop = @ + 1]
                         ELSE [x EXCEPT !._pjmTop = @ + 1])
        chk(x) == IF MATRIX_STACK_MAX <= x._mvmTop \/ MATRIX_STACK_MAX <= x._pjmTop
                  THEN g_assert0(x)
                  ELSE x
        top(x) == IF x._mode = GL_MODELVIEW THEN x._mvmTop ELSE x._pjmTop
        \* memcpy(_crntMat, prevMat): past the array when the top, or the one
        \* under it, is past it
        cpy(x) == Run(x, IF top(x) \notin MatrixSlots \/ top(x) - 1 \notin MatrixSlots
                         THEN [x EXCEPT !.proc = "ub"]
                         ELSE FlagWatch(
                              [x EXCEPT !._crntMat = <<x._mode, top(x)>>,
                                        !._mvm = IF x._mode = GL_MODELVIEW
                                                 THEN [@ EXCEPT ![top(x)] = x._mvm[top(x) - 1]]
                                                 ELSE @,
                                        !._pjm = IF x._mode = GL_MODELVIEW
                                                 THEN @
                                                 ELSE [@ EXCEPT ![top(x)] = x._pjm[top(x) - 1]]]))
    IN  cpy(chk(inc(s)))

_glPopMatrix(s) ==
    LET dec(x) == Run(x, IF x._mode = GL_MODELVIEW
                         THEN [x EXCEPT !._mvmTop = @ - 1]
                         ELSE [x EXCEPT !._pjmTop = @ - 1])
        chk(x) == IF x._mvmTop < 0 \/ x._pjmTop < 0 THEN g_assert0(x) ELSE x
        opt(x) == Run(x, FlagWatch(IF x._mode = GL_MODELVIEW
                                   THEN [x EXCEPT !._identity_MODELVIEW = FALSE]
                                   ELSE x))
    IN  opt(chk(dec(s)))

\* mutant: the translation leaves the optimisation flag as it is
_glTranslated_keep(s, v) == MultMat(s, <<"T", v>>, s._identity_MODELVIEW)

_glTranslated(s, v) == MultMat(s, <<"T", v>>, FALSE)

_glScaled(s, v) == MultMat(s, <<"S", v>>, FALSE)

_glRotated(s, angle) == MultMat(s, <<"R", angle>>, FALSE)

_glLoadIdentity(s) == StoreMat(s, s._crntMat, Identity, TRUE)

\* the flag is left alone
_glOrtho(s) == MultMat(s, <<"O", 0>>, s._identity_MODELVIEW)

\* glUniformMatrix4fv(_uProjection, .., _pjm[_pjmTop]); (_uModelview, .., _mvm[_mvmTop])
glUniformMatrix4fv_tops(s) ==
    Run(s, IF s._pjmTop \notin MatrixSlots \/ s._mvmTop \notin MatrixSlots
           THEN [s EXCEPT !.proc = "ub"]
           ELSE s)

\* VP_PRJ and VP_WIN: the "Viewport not set" g_assert(0) needs an extent that is all
\* zero, which _pmin / _pmax (infinite until a view is set) and the _vp of begin are not
_glMatrixSet(s) ==
    LET prj(x) == _glOrtho(_glLoadIdentity(_glPushMatrix(_glMatrixMode(x, GL_PROJECTION))))
        \* the rotation about the centre of the extent, which is taken as the origin
        rot(x) == _glTranslated(_glRotated(_glTranslated(x, 0), x._north), 0)
        mdl(x) == _glLoadIdentity(_glPushMatrix(_glMatrixMode(x, GL_MODELVIEW)))
    IN  glUniformMatrix4fv_tops(mdl(rot(prj(s))))

\* mutant: the modelview matrix is never popped
_glMatrixDel_keepMV(s) ==
    LET prj(x) == _glPopMatrix(_glMatrixMode(x, GL_PROJECTION))
        mdl(x) == _glMatrixMode(x, GL_MODELVIEW)
    IN  glUniformMatrix4fv_tops(mdl(prj(s)))

_glMatrixDel(s) ==
    LET prj(x) == _glPopMatrix(_glMatrixMode(x, GL_PROJECTION))
        mdl(x) == _glPopMatrix(_glMatrixMode(x, GL_MODELVIEW))
    IN  glUniformMatrix4fv_tops(mdl(prj(s)))

\* ------------------------------------------------------ init / done
_contextValid(s) == Run(s, [s EXCEPT !._ctxValidated = TRUE])

\* the program object is rebuilt, then: "init matrix"
_init_es2(s) ==
    _glLoadIdentity(_glMatrixMode(_glLoadIdentity(_glMatrixMode(s, GL_PROJECTION)),
                                  GL_MODELVIEW))

S52_GL_init(s) ==
    IF ~s._doInit
    THEN Return(s, IF s._doInit THEN TRUE_ ELSE FALSE_)
    ELSE LET ini(x) == Run(x, [x EXCEPT !._objPickNULL = FALSE,
                                        !._objPick = IF x._objPickNULL THEN <<>> ELSE @,
                                        !._doInit = FALSE,
                                        !._symbCreated = FALSE,
                                        !._ctxValidated = FALSE])
         IN  Return(ini(_init_es2(_contextValid(s))), TRUE_)

S52_GL_done(s) ==
    IF s._doInit
    THEN Return(s, IF s._doInit THEN TRUE_ ELSE FALSE_)
    ELSE LET fin(x) == [x EXCEPT !._fb_pixels = FALSE,
                                 !._objPickNULL = TRUE,
                                 !._objPick = <<>>,
                                 !._doInit = TRUE]
             out(x) == Return(x, IF x._doInit THEN TRUE_ ELSE FALSE_)
         IN  out(fin(s))

\* ------------------------------------------------------ view, viewport
S52_GL_setView(s, north) == Return([s EXCEPT !._north = north], TRUE_)

S52_GL_setDotPitch(s, wh) ==
    Return([s EXCEPT !._fb_pixels_size = wh, !._fb_pixels = TRUE], TRUE_)

S52_GL_setViewPort(s, wh) ==
    LET grow(x) == IF x._fb_pixels_size < x._vp
                   THEN [x EXCEPT !._fb_pixels_size = x._vp, !._fb_pixels = TRUE]
                   ELSE x
    IN  Return(grow([s EXCEPT !._vp = wh]), TRUE_)

\* ------------------------------------------------- framebuffer snapshot
\* mutant: the framebuffer is never copied
S52_GL_readFBPixels_nocopy(s) == s

S52_GL_readFBPixels(s) ==
    IF S52_GL_PICK = s._crnt_GL_cycle \/ ~s._fb_pixels
    THEN s
    ELSE Run(s, [s EXCEPT !.tex = s.fb])

S52_GL_drawFBPixels(s) ==
    IF S52_GL_PICK = s._crnt_GL_cycle \/ ~s._fb_pixels
    THEN s
    ELSE LET blit(x)       == Run(x, [x EXCEPT !.fb = x.tex])
             rest(x, north) == Run(x, [x EXCEPT !._north = north])
         IN  rest(_glMatrixDel(blit(_glMatrixSet([s EXCEPT !._north = 0]))), s._north)

\* glClear() of _renderAC_NODATA_layer0, with the red value of colour NODTA
_renderAC_NODATA_layer0(s, red) ==
    Run(s, [s EXCEPT !.fb = [by |-> {}, r |-> {red}]])

\* ----------------------------------------------------------- S57_prim
Coords == 1 .. MaxCoord

\* the values an uninitialized int can be read as, as far as a count goes
Indeterminate == {0, MaxVert + 1}

\* the primitive the tessellator makes of the area of an object: one span of triangles
TessPrim ==
    [list   |-> << [mode |-> "GL_TRIANGLES", first |-> 0, count |-> 3, ended |-> TRUE] >>,
     vertex |-> <<1, 1, 1>>]

\* reset of a primitive holder
S57_initPrim(s) == Run(s, [s EXCEPT !.prim = [list |-> <<>>, vertex |-> <<>>]])

\* the count of the new span is not initialized: it reads as garbage until S57_endPrim();
\* ended records that S57_endPrim() has set it
S57_begPrim(s, mode, garbage) ==
    Run(s, [s EXCEPT !.prim.list = Append(@, [mode  |-> mode,
                                               first |-> Len(s.prim.vertex),
                                               count |-> garbage,
                                               ended |-> FALSE])])

\* mutant: the count of the span is the length of the vertex array
S57_endPrim_len(s) ==
    Run(s, IF Len(s.prim.list) = 0
           THEN [s EXCEPT !.proc = "ub"]
           ELSE [s EXCEPT !.prim.list[Len(s.prim.list)].count = Len(s.prim.vertex),
                          !.prim.list[Len(s.prim.list)].ended = TRUE])

\* g_array_index(prim->list, _prim, len - 1) of an empty list is before the array
S57_endPrim(s) ==
    Run(s, IF Len(s.prim.list) = 0
           THEN [s EXCEPT !.proc = "ub"]
           ELSE [s EXCEPT !.prim.list[Len(s.prim.list)].count =
                              Len(s.prim.vertex) - s.prim.list[Len(s.prim.list)].first,
                          !.prim.list[Len(s.prim.list)].ended = TRUE])

S57_addPrimVertex(s, v) == Run(s, [s EXCEPT !.prim.vertex = Append(@, v)])

\* a call sent to the GPU: glDrawArrays(mode, first, count) or glUniformMatrix4fv(.., m)
GLCall(call, mode, first, count, m) ==
    [call |-> call, mode |-> mode, first |-> first, count |-> count, m |-> m]

\* glUniformMatrix4fv(_uModelview, 1, GL_FALSE, _mvm[_mvmTop])
glUniformMatrix4fv_uModelview(s) ==
    Run(s, IF s._mvmTop \notin MatrixSlots
           THEN [s EXCEPT !.proc = "ub"]
           ELSE [s EXCEPT !.glDraw = Append(@, GLCall("glUniformMatrix4fv", "", 0, 0,
                                                      s._mvm[s._mvmTop]))])

glDrawArrays(s, p) ==
    Run(s, [s EXCEPT !.glDraw = Append(@, GLCall("glDrawArrays", p.mode, p.first, p.count,
                                                 Identity)),
                     !.gl = Append(@, "glDrawArrays")])

\* -------------------------------------------------- primitive buffers
Min(S) == CHOOSE x \in S : \A y \in S : x <= y

\* the name glGenBuffers() hands out: an unused one, or 0 when it fails
glGenBuffers(s, gen) ==
    IF gen THEN Min((1 .. Cardinality(s.glBuffers) + 1) \ s.glBuffers) ELSE 0

\* the value is the state after the call (s) and the returned vboID (v)
_VBOCreate(s, prim, gen) ==
    LET new(x, id) == IF id = 0
                      THEN [s |-> g_assert0(x), v |-> 0]
                      ELSE [s |-> [x EXCEPT !.glBuffers = @ \cup {id},
                                            !.uploads[prim] = @ + 1,
                                            !.gl = Append(@, "glBufferData")],
                            v |-> id]
    IN  IF s.DList[prim] \notin s.glBuffers
        THEN new([s EXCEPT !.gl = Append(@, "glGenBuffers")], glGenBuffers(s, gen))
        ELSE [s |-> g_assert0(s), v |-> s.DList[prim]]

\* the loop of _VBODrawArrays() over the spans of the primitive, from span i:
\* every span goes to glDrawArrays()
RECURSIVE _VBODrawArrays_spans(_, _)
_VBODrawArrays_spans(s, i) ==
    IF i >= Len(s.prim.list) \/ s.proc # "run"
    THEN s
    ELSE _VBODrawArrays_spans(glDrawArrays(s, s.prim.list[i + 1]), i + 1)

\* glDrawArrays() of every span of the primitive with the current colour:
\* the pixels of the pick region it leaves alone keep the red values in keep
_VBODrawArrays(s, red, cover, keep) ==
    LET pix(x) == Run(x, [x EXCEPT !.fb = [by |-> @.by \cup {x._crnt_GL_cycle},
                                           r  |-> IF cover THEN keep \cup {red} ELSE @.r]])
    IN  pix(_VBODrawArrays_spans(s, 0))

_VBODrawBound(s, red, cover, keep) ==
    _VBODrawArrays([s EXCEPT !.gl = Append(@, "glBindBuffer")], red, cover, keep)

\* mutant: the cached handle is not looked at, the buffer is created at every draw
_VBODraw_always(s, prim, gen, red, cover, keep) ==
    LET use(c) == IF c.v = 0
                  THEN c.s
                  ELSE Run(c.s, _VBODrawBound([c.s EXCEPT !.DList[prim] = c.v],
                                              red, cover, keep))
    IN  use(_VBOCreate([s EXCEPT !.DList[prim] = 0], prim, gen))

_VBODraw(s, prim, gen, red, cover, keep) ==
    LET use(c) == IF c.v = 0
                  THEN c.s
                  ELSE Run(c.s, _VBODrawBound([c.s EXCEPT !.DList[prim] = c.v],
                                              red, cover, keep))
    IN  IF s.DList[prim] = 0
        THEN use(_VBOCreate(s, prim, gen))
        ELSE _VBODrawBound(s, red, cover, keep)

_fillarea(s, obj, gen, red, cover, keep) == _VBODraw(s, obj, gen, red, cover, keep)

_glUniformMatrix4fv_uModelview(s) ==
    LET opt(x) == Run(x, FlagWatch([x EXCEPT !._identity_MODELVIEW = TRUE]))
    IN  IF ~s._identity_MODELVIEW
        THEN opt(glUniformMatrix4fv_uModelview(_glLoadIdentity(_glMatrixMode(s, GL_MODELVIEW))))
        ELSE s

\* the red value _glColor4ub() sends to the shader
_glColor4ub(s, chartR) ==
    IF S52_GL_PICK = s._crnt_GL_cycle THEN s._cIdx ELSE chartR

_renderAC(s, obj, gen, chartR, cover, keep) ==
    Run(s, _fillarea(_glUniformMatrix4fv_uModelview(s), obj, gen,
                     _glColor4ub(s, chartR), cover, keep))

_traceCS(s) == g_assert0(s)

RECURSIVE CmdLoop(_, _, _, _, _, _, _)
CmdLoop(s, cmds, obj, gen, chartR, cover, keep) ==
    LET cmd(x, cmdWrd) ==
            CASE cmdWrd = S52_CMD_ARE_CO -> _renderAC(x, obj, gen, chartR, cover, keep)
              [] cmdWrd = S52_CMD_CND_SY -> _traceCS(x)
              [] OTHER -> x
    IN  IF cmds = <<>> \/ s.proc # "run"
        THEN s
        ELSE CmdLoop(cmd(s, Head(cmds)), Tail(cmds), obj, gen, chartR, cover, keep)

S52_GL_draw(s, obj, gen, chartR, cover, keep) ==
    LET inc(x) == IF S52_GL_PICK = x._crnt_GL_cycle
                  THEN [x EXCEPT !._cIdx = (@ + 1) % GLubyteSize]
                  ELSE x
        \* glReadPixels() of the 8x8 region: is a pixel of it of colour _cIdx ?
        found(x) == S52_GL_PICK = x._crnt_GL_cycle /\ x._cIdx \in x.fb.r
        \* g_ptr_array_add(): nothing is added to a NULL array
        add(x) == Run(x, [x EXCEPT !.drawn = Append(@, <<obj, x._cIdx, found(x)>>),
                                   !._objPick = IF found(x) /\ ~x._objPickNULL
                                                THEN Append(@, obj)
                                                ELSE @])
    IN  Return(add(CmdLoop(inc(s), CmdOf(obj), obj, gen, chartR, cover, keep)), TRUE_)

S52_GL_del(s, obj) ==
    LET del(x, vboID) == IF vboID \in x.glBuffers
                         THEN [x EXCEPT !.glBuffers = @ \ {vboID},
                                        !.gl = Append(@, "glDeleteBuffers")]
                         ELSE x
        clr(x) == [x EXCEPT !.DList[obj] = 0, !.uploads[obj] = 0]
    IN  Return(clr(del(s, s.DList[obj])), TRUE_)

\* --------------------------------------------------------- cursor pick
\* mutant: the name of the first object of the array is the one reported
PickLoop_first(arr, i, S57ID) ==
    IF arr = <<>> THEN S57ID ELSE S57_getGeoID(arr[1])

\* the S57ID of the name the loop over _objPick leaves in name / S57ID
RECURSIVE PickLoop(_, _, _)
PickLoop(arr, i, S57ID) ==
    IF i > Len(arr) THEN S57ID ELSE PickLoop(arr, i + 1, S57_getGeoID(arr[i]))

S52_GL_getNameObjPick(s) ==
    IF s._objPickNULL
    THEN [s EXCEPT !.proc = "ub"]
    ELSE IF Len(s._objPick) = 0
         THEN Return(s, 0)
         ELSE Return([s EXCEPT !.highlight[s._objPick[Len(s._objPick)]] = TRUE],
                     PickLoop(s._objPick, 1, 0))

\* ---------------------------------------------------------- the cycle
CHECK_GL_BEGIN(s) == IF ~s._GL_BEGIN THEN g_assert0(s) ELSE s

CHECK_GL_END(s) == IF s._GL_BEGIN THEN g_assert0(s) ELSE s

_createSymb(s) ==
    LET set(x) == Run(x, [x EXCEPT !._symbCreated = TRUE])
    IN  IF s._symbCreated
        THEN s
        ELSE set(_glMatrixDel(_glMatrixSet(s)))

\* glvp: the viewport GL reports; nodata: S52_MAR_DISP_NODATA_LAYER is 1.0
S52_GL_begin(s, cycle, glvp, nodata, nodataR) ==
    LET beg(x) == Run(x, [x EXCEPT !._GL_BEGIN = TRUE])
        chk(x) == IF S52_GL_NONE # x._crnt_GL_cycle THEN g_assert0(x) ELSE x
        cyc(x) == Run(x, [x EXCEPT !._crnt_GL_cycle = cycle, !._identity_MODELVIEW = FALSE])
        ini(x) == _contextValid([S52_GL_init(x) EXCEPT !.ret = NoRet])
        pck(x) == IF S52_GL_PICK = x._crnt_GL_cycle
                  THEN Run(x, [x EXCEPT !._cIdx = 0, !._objPick = <<>>])
                  ELSE x
        vpt(x) == IF x._vp = 0 THEN Run(x, [x EXCEPT !._vp = glvp]) ELSE x
        buf(x) == IF x._fb_pixels_size < x._vp
                  THEN g_assert0(Run(x, [x EXCEPT !._fb_pixels = FALSE]))
                  ELSE x
        upd(x) == IF x._fb_update
                  THEN Run(x, [S52_GL_readFBPixels(x) EXCEPT !._fb_update = FALSE])
                  ELSE x
        drw(x) == IF S52_GL_DRAW = x._crnt_GL_cycle
                  THEN IF nodata THEN _renderAC_NODATA_layer0(x, nodataR) ELSE x
                  ELSE IF S52_GL_LAST = x._crnt_GL_cycle
                       THEN S52_GL_drawFBPixels(upd(x))
                       ELSE x
    IN  Return(drw(_glMatrixSet(buf(_createSymb(vpt(pck(ini(cyc(chk(beg(
               CHECK_GL_END(s))))))))))), TRUE_)

\* mutant: the end of a DRAW cycle does not flag the snapshot
S52_GL_end_noflag(s, cycle) ==
    LET chk(x) == IF cycle # x._crnt_GL_cycle THEN g_assert0(x) ELSE x
        cyc(x) == Run(x, [x EXCEPT !._crnt_GL_cycle = cycle])
        fin(x) == Run(x, [x EXCEPT !._crnt_GL_cycle = S52_GL_NONE, !._GL_BEGIN = FALSE])
    IN  Return(fin(_glMatrixDel(cyc(chk(CHECK_GL_BEGIN(s))))), TRUE_)

S52_GL_end(s, cycle) ==
    LET chk(x) == IF cycle # x._crnt_GL_cycle THEN g_assert0(x) ELSE x
        cyc(x) == Run(x, [x EXCEPT !._crnt_GL_cycle = cycle])
        upd(x) == IF S52_GL_DRAW = x._crnt_GL_cycle
                  THEN Run(x, [x EXCEPT !._fb_update = TRUE])
                  ELSE x
        fin(x) == Run(x, [x EXCEPT !._crnt_GL_cycle = S52_GL_NONE, !._GL_BEGIN = FALSE])
    IN  Return(fin(upd(_glMatrixDel(cyc(chk(CHECK_GL_BEGIN(s)))))), TRUE_)

\* _renderTXTAA() draws the string into the framebuffer
S52_GL_drawStrWin(s) ==
    LET txt(x) == Run(x, [x EXCEPT !.fb.by = @ \cup {x._crnt_GL_cycle}])
        fin(x) == Run(x, [x EXCEPT !._GL_BEGIN = FALSE])
    IN  Return(fin(_glMatrixDel(txt(_glMatrixSet([s EXCEPT !._GL_BEGIN = TRUE])))), TRUE_)

\* ------------------------------------------------------------ S57_geo
\* INFINITY, and the coordinates of an extent
INFINITY  == MaxExt + 1
ExtCoords == -INFINITY .. INFINITY
isinf(x)  == x = INFINITY \/ x = -INFINITY

\* g_new0() and the assignments common to the four constructors
NewGeo(obj_t, linexyznbr, ringxyznbr) ==
    [obj_t      |-> obj_t,
     linexyznbr |-> linexyznbr,
     ringxyznbr |-> ringxyznbr,
     dataSize   |-> 0,
     attribs    |-> [k \in AttNames |-> NULL_],
     touch      |-> [TOPMAR |-> 0, LIGHTS |-> 0, DEPARE |-> 0, DEPVAL |-> 0],
     rect       |-> [x1 |-> INFINITY, y1 |-> INFINITY, x2 |-> -INFINITY, y2 |-> -INFINITY],
     centroid   |-> <<>>,
     silent     |-> FALSE]

\* the static silent of S57_getAttVal() outlives the features
S57_setPOINT(s) == [s EXCEPT !.geo = [NewGeo("POINT_T", 0, <<>>) EXCEPT !.silent = s.geo.silent]]

S57_setLINES(s, xyznbr) ==
    [s EXCEPT !.geo = [NewGeo("LINES_T", xyznbr, <<>>) EXCEPT !.silent = s.geo.silent]]

S57_setAREAS(s, ringxyznbr) ==
    [s EXCEPT !.geo = [NewGeo("AREAS_T", 0, ringxyznbr) EXCEPT !.silent = s.geo.silent]]

S57_set_META(s) == [s EXCEPT !.geo = [NewGeo("_META_T", 0, <<>>) EXCEPT !.silent = s.geo.silent]]

S57_setGeoSize(s, size) ==
    LET pnt(x) == IF "POINT_T" = x.geo.obj_t /\ size > 1 THEN g_assert0(x) ELSE x
        lin(x) == IF "LINES_T" = x.geo.obj_t /\ size > x.geo.linexyznbr THEN g_assert0(x) ELSE x
        are(x) == IF "AREAS_T" = x.geo.obj_t /\ size > x.geo.ringxyznbr[1] THEN g_assert0(x) ELSE x
        set(x) == IF "_META_T" = x.geo.obj_t
                  THEN Return(g_assert0(x), FALSE_)
                  ELSE Return(Run(x, [x EXCEPT !.geo.dataSize = size]), size)
    IN  set(are(lin(pnt(s))))

S57_setExt(s, x1, y1, x2, y2) ==
    LET chk(x) == IF isinf(x1) /\ isinf(x2) THEN g_assert0(x) ELSE x
        set(x) == Run(x, [x EXCEPT !.geo.rect = [x1 |-> x1, y1 |-> y1, x2 |-> x2, y2 |-> y2]])
    IN  Return(set(chk(s)), TRUE_)

\* the attribute string, or NULL_
S57_getAttVal(s, att_name) ==
    LET att == s.geo.attribs[att_name]
    IN  IF NULL_ # att /\ att = EMPTY_NUMBER_MARKER
        THEN Return(s, NULL_)
        ELSE IF ~s.geo.silent /\ NULL_ # att /\ att = ""
             THEN Return([s EXCEPT !.geo.silent = TRUE], NULL_)
             ELSE Return(s, att)

S57_setAtt(s, name, val) == [s EXCEPT !.geo.attribs[name] = val]

\* touch is a union: its four members are one and the same pointer, an assignment to
\* one member is an assignment to all of them
S57_setTouchTOPMAR(s, touch) == Return([s EXCEPT !.geo.touch = [m \in DOMAIN @ |-> touch]], TRUE_)

S57_setTouchLIGHTS(s, touch) == Return([s EXCEPT !.geo.touch = [m \in DOMAIN @ |-> touch]], TRUE_)

S57_setTouchDEPARE(s, touch) == Return([s EXCEPT !.geo.touch = [m \in DOMAIN @ |-> touch]], TRUE_)

S57_setTouchDEPVAL(s, touch) == Return([s EXCEPT !.geo.touch = [m \in DOMAIN @ |-> touch]], TRUE_)

\* --------------------------------------------------------- projection
\* a projection made by pj_init_plus() of the Mercator string of lat, lon is <<lat, lon>>;
\* a latitude of true scale of 90 degrees is refused by PROJ; NULL is <<>>
S57_initPROJ(s) ==
    IF ~s.PJ._doInit
    THEN s
    ELSE Run(s, [s EXCEPT !.PJ._pjsrc = "latlong", !.PJ._doInit = FALSE])

S57_donePROJ(s) ==
    Return([s EXCEPT !.PJ = [_doInit |-> TRUE, _pjsrc |-> NULL_,
                              _pjdst |-> <<>>, _pjstr |-> <<>>]], TRUE_)

\* mutant: the projection is set whether one is set or not
S57_setMercPrj_again(s, lat, lon) ==
    Return([s EXCEPT !.PJ._pjstr = <<lat, lon>>, !.PJ._pjdst = <<lat, lon>>], TRUE_)

S57_setMercPrj(s, lat, lon) ==
    IF <<>> # s.PJ._pjstr
    THEN Return(s, FALSE_)
    ELSE IF lat >= 90
         THEN Return(g_assert0([s EXCEPT !.PJ._pjstr = <<lat, lon>>,
                                         !.PJ._pjdst = <<>>]), FALSE_)
         ELSE Return([s EXCEPT !.PJ._pjstr = <<lat, lon>>,
                               !.PJ._pjdst = <<lat, lon>>], TRUE_)

\* data: the latitudes of the points; pj_transform() fails on a pole
S57_geo2prj3dv(s, data) ==
    LET dst(x) == IF <<>> = x.PJ._pjdst
                  THEN Return(g_assert0(x), FALSE_)
                  ELSE IF \E i \in DOMAIN data : data[i] >= 90
                       THEN Return(g_assert0(x), FALSE_)
                       ELSE Return(x, TRUE_)
    IN  dst(S57_initPROJ(s))

\* ------------------------------------------------------ texture atlas
\* a node of the skyline is <<x, y, z>> (z is its width), a region <<x, y, width, height>>;
\* the atlas is MaxAtlas wide and high

\* the while loop of texture_atlas_fit(): -1 when the region does not fit, -2 when the
\* loop runs past the last node
RECURSIVE texture_atlas_fit_while(_, _, _, _, _)
texture_atlas_fit_while(nodes, i, y, width_left, height) ==
    IF width_left <= 0
    THEN y
    ELSE IF i > Len(nodes)
         THEN -2
         ELSE LET top == IF nodes[i][2] > y THEN nodes[i][2] ELSE y
              IN  IF top + height > MaxAtlas - 1
                  THEN -1
                  ELSE texture_atlas_fit_while(nodes, i + 1, top, width_left - nodes[i][3], height)

texture_atlas_fit(nodes, index, width, height) ==
    IF nodes[index][1] + width > MaxAtlas - 1
    THEN -1
    ELSE texture_atlas_fit_while(nodes, index, nodes[index][2], width, height)

RECURSIVE texture_atlas_merge(_, _)
texture_atlas_merge(nodes, i) ==
    IF i >= Len(nodes)
    THEN nodes
    ELSE IF nodes[i][2] = nodes[i + 1][2]
         THEN texture_atlas_merge(
                  [j \in 1 .. Len(nodes) - 1 |->
                      IF j < i THEN nodes[j]
                      ELSE IF j = i THEN <<nodes[i][1], nodes[i][2], nodes[i][3] + nodes[i + 1][3]>>
                           ELSE nodes[j + 1]], i)
         ELSE texture_atlas_merge(nodes, i + 1)

\* the loop of texture_atlas_get_region() over the nodes that follow the new one
RECURSIVE texture_atlas_get_region_shrink(_, _)
texture_atlas_get_region_shrink(nodes, i) ==
    IF i > Len(nodes)
    THEN nodes
    ELSE IF nodes[i][1] < nodes[i - 1][1] + nodes[i - 1][3]
         THEN LET shrink == nodes[i - 1][1] + nodes[i - 1][3] - nodes[i][1]
              IN  IF nodes[i][3] - shrink <= 0
                  THEN texture_atlas_get_region_shrink(
                           [j \in 1 .. Len(nodes) - 1 |-> IF j < i THEN nodes[j] ELSE nodes[j + 1]], i)
                  ELSE [nodes EXCEPT ![i] = <<@[1] + shrink, @[2], @[3] - shrink>>]
         ELSE nodes

texture_atlas_get_region(s, width, height) ==
    LET nodes == s.atlas.nodes
        y(i)  == texture_atlas_fit(nodes, i, width, height)
        \* the node the loop leaves in best_index: the lowest top, then the narrowest
        \* node, then the first
        better(i, j) == \/ y(i) + height < y(j) + height
                        \/ y(i) + height = y(j) + height /\ nodes[i][3] < nodes[j][3]
                        \/ y(i) + height = y(j) + height /\ nodes[i][3] = nodes[j][3] /\ i <= j
        fits == {i \in DOMAIN nodes : y(i) >= 0}
        new(x, best_index) ==
            [x EXCEPT !.atlas.nodes =
                         texture_atlas_merge(
                             texture_atlas_get_region_shrink(
                                 [j \in 1 .. Len(nodes) + 1 |->
                                     IF j < best_index THEN nodes[j]
                                     ELSE IF j = best_index
                                          THEN <<nodes[best_index][1], y(best_index) + height, width>>
                                          ELSE nodes[j - 1]],
                                 best_index + 1), 1),
                      !.atlas.used = @ + width * height,
                      !.atlas.regions = Append(@, <<nodes[best_index][1], y(best_index), width, height>>),
                      !.ret = <<nodes[best_index][1], y(best_index), width, height>>]
    IN  IF \E i \in DOMAIN nodes : y(i) = -2
        THEN [s EXCEPT !.proc = "ub"]
        ELSE IF fits = {}
             THEN Return(s, <<-1, -1, 0, 0>>)
             ELSE new(s, CHOOSE i \in fits : \A j \in fits : better(i, j))

texture_atlas_clear(s) ==
    [s EXCEPT !.atlas = [nodes |-> <<<<1, 1, MaxAtlas - 2>>>>, regions |-> <<>>, used |-> 0]]

\* ------------------------------------------------------- clip to view
\* The coordinates are doubles.  On the small integers used here a sum, a difference
\* and a product are exact; a quotient is rounded to the nearest representable value,
\* ties to even.  The representable values of the model are the integers.
DoubleDiv(a, b) ==
    LET n == IF b < 0 THEN -a ELSE a
        d == IF b < 0 THEN -b ELSE b
        q == n \div d
        r == n - q * d
    IN  IF 2 * r < d THEN q
        ELSE IF 2 * r > d THEN q + 1
             ELSE IF q % 2 = 0 THEN q ELSE q + 1

\* the out code is the set of its bits
_computeOutCode(s, x, y) ==
    (IF y > s._pmax.v THEN {"_TOP"} ELSE IF y < s._pmin.v THEN {"_BOTTOM"} ELSE {})
    \cup (IF x > s._pmax.u THEN {"_RIGHT"} ELSE IF x < s._pmin.u THEN {"_LEFT"} ELSE {})

\* one pass of the do-while loop, then the next; returns accept and the segment
\* left in *x1, *y1, *x2, *y2
RECURSIVE _clipToView(_, _, _, _, _)
_clipToView(s, x1, y1, x2, y2) ==
    LET outcode1 == _computeOutCode(s, x1, y1)
        outcode2 == _computeOutCode(s, x2, y2)
        outcode  == IF outcode1 # {} THEN outcode1 ELSE outcode2
        x == CASE "_TOP" \in outcode    -> x1 + DoubleDiv((x2 - x1) * (s._pmax.v - y1), y2 - y1)
               [] "_BOTTOM" \in outcode -> x1 + DoubleDiv((x2 - x1) * (s._pmin.v - y1), y2 - y1)
               [] "_RIGHT" \in outcode  -> s._pmax.u
               [] OTHER                 -> s._pmin.u
        y == CASE "_TOP" \in outcode    -> s._pmax.v
               [] "_BOTTOM" \in outcode -> s._pmin.v
               [] "_RIGHT" \in outcode  -> y1 + DoubleDiv((y2 - y1) * (s._pmax.u - x1), x2 - x1)
               [] OTHER                 -> y1 + DoubleDiv((y2 - y1) * (s._pmin.u - x1), x2 - x1)
    IN  IF outcode1 \cup outcode2 = {}
        THEN Return(s, [accept |-> TRUE_, seg |-> <<x1, y1, x2, y2>>])
        ELSE IF outcode1 \cap outcode2 # {}
             THEN Return(s, [accept |-> FALSE_, seg |-> <<x1, y1, x2, y2>>])
             ELSE IF outcode = outcode1
                  THEN _clipToView(s, x, y, x2, y2)
                  ELSE _clipToView(s, x1, y1, x, y)

\* ------------------------------------------------ symbols and patterns
\* a command of a vector program: the command word and its coordinate
HPGLCmds == {"CI", "PD"} \X Coords

\* CI: the centre as a _QUADRIC_TRANSLATE span, then the disk around the origin;
\* PD: a line from the origin to the coordinate
RECURSIVE _parseHPGL(_, _, _)
_parseHPGL(s, cmds, garbage) ==
    LET \* _glBegin(), _vertex3f(), _glEnd()
        beg(x, mode) == S57_begPrim(x, mode, garbage)
        vtx(x, v)    == S57_addPrimVertex(x, v)
        ctr(x, v)    == S57_endPrim(vtx(beg(x, _QUADRIC_TRANSLATE), v))
        dsk(x)       == S57_endPrim(vtx(vtx(vtx(beg(x, "GL_TRIANGLES"), 0), 1), 1))
        lin(x, v)    == S57_endPrim(vtx(vtx(beg(x, "GL_LINES"), 0), v))
        cmd(x, c)    == IF c[1] = "CI" THEN dsk(ctr(x, c[2])) ELSE lin(x, c[2])
    IN  IF cmds = <<>> \/ s.proc # "run"
        THEN s
        ELSE _parseHPGL(cmd(s, Head(cmds)), Tail(cmds), garbage)

\* _buildSymbDL / _buildPatternDL: the primitive of a symbol, of a pattern
_buildSymbDL(s, cmds, garbage) == _parseHPGL(S57_initPrim(s), cmds, garbage)

\* the loop of _glCallList() over the spans of the primitive, from span j
RECURSIVE _glCallList_spans(_, _)
_glCallList_spans(s, j) ==
    LET p == s.prim.list[j + 1]
        \* v[first*3 + 0]: past the array when the span starts at its end
        trn(x) == IF p.first >= Len(x.prim.vertex)
                  THEN [x EXCEPT !.proc = "ub"]
                  ELSE glUniformMatrix4fv_uModelview(
                           _glTranslated(x, x.prim.vertex[p.first + 1]))
        one(x) == IF _QUADRIC_TRANSLATE = p.mode THEN trn(x) ELSE glDrawArrays(x, p)
    IN  IF j >= Len(s.prim.list) \/ s.proc # "run"
        THEN s
        ELSE _glCallList_spans(one(s), j + 1)

_glCallList(s) == _glCallList_spans(glUniformMatrix4fv_uModelview(s), 0)

\* the loop of _renderTile() over the spans of the primitive, from span j
RECURSIVE _renderTile_spans(_, _)
_renderTile_spans(s, j) ==
    LET p == s.prim.list[j + 1]
        one(x) == IF _QUADRIC_TRANSLATE = p.mode THEN g_assert0(x) ELSE glDrawArrays(x, p)
    IN  IF j >= Len(s.prim.list) \/ s.proc # "run"
        THEN s
        ELSE _renderTile_spans(one(s), j + 1)

_renderTile(s) == _renderTile_spans(glUniformMatrix4fv_uModelview(s), 0)

\* the scale to pixels is the factor 2
_pushScaletoPixel(s) == _glScaled(_glPushMatrix(_glMatrixMode(s, GL_MODELVIEW)), 2)

_popScaletoPixel(s) == _glPopMatrix(_glMatrixMode(s, GL_MODELVIEW))

\* a symbol at the position x, turned by rotation
_renderSY_POINT_T(s, x, rotation) ==
    LET pos(y) == _glScaled(_glTranslated(_glLoadIdentity(_glMatrixMode(y, GL_MODELVIEW)), x), -1)
        rot(y) == _glRotated(_pushScaletoPixel(y), rotation)
    IN  _popScaletoPixel(_glCallList(rot(pos(s))))

\* the tile of a pattern is rendered to the texture of the pattern, once; the area
\* is then filled as _renderAC() fills it
_renderAP_es2(s, offsetXpx) ==
    LET til(x) == _glMatrixDel(_renderTile(_glScaled(_glTranslated(_glMatrixSet(x),
                                                                     offsetXpx), -1)))
    IN  _glUniformMatrix4fv_uModelview(til(s))

\* ---------------------------------------------------- symbol of an object
\* *npt of S57_getGeoData(geoData, 0, &npt, &ppt): the capacity of the geometry
S57_getGeoData(g) ==
    CASE g.obj_t = "POINT_T" -> 1
      [] g.obj_t = "LINES_T" -> g.linexyznbr
      [] g.obj_t = "AREAS_T" -> IF g.ringxyznbr = <<>> THEN 0 ELSE g.ringxyznbr[1]
      [] OTHER               -> 0

\* S57_getGeoData(geoData, ringNo, &npt, &ppt) as a call: the ring asked for is
\* looked up in the per-ring arrays, which hold ringnbr entries
S57_getGeoData_ringNo(s, ringNo) ==
    LET chk(x) == IF "AREAS_T" = x.geo.obj_t /\ Len(x.geo.ringxyznbr) < ringNo
                  THEN g_assert0(x)
                  ELSE x
        \* ringxyznbr[ringNo], ringxyz[ringNo]
        idx(x) == IF "AREAS_T" = x.geo.obj_t /\ x.geo.ringxyznbr # <<>>
                     /\ ringNo >= Len(x.geo.ringxyznbr)
                  THEN Run(x, [x EXCEPT !.proc = "ub"])
                  ELSE x
        npt(x) == CASE x.geo.obj_t = "POINT_T" -> 1
                    [] x.geo.obj_t = "LINES_T" -> x.geo.linexyznbr
                    [] x.geo.obj_t = "AREAS_T" /\ x.geo.ringxyznbr # <<>>
                                               -> x.geo.ringxyznbr[ringNo + 1]
                    [] OTHER                   -> 0
        siz(x) == IF x.proc # "run"
                  THEN x
                  ELSE IF npt(x) < x.geo.dataSize
                       THEN Return(g_assert0(x), FALSE_)
                       ELSE Return(x, IF 0 = npt(x) THEN FALSE_ ELSE TRUE_)
    IN  siz(idx(chk(s)))

S57_newCentroid(s) == Run(s, [s EXCEPT !.geo.centroid = <<>>])

S57_addCentroid(s, x) == Run(s, [s EXCEPT !.geo.centroid = Append(@, x)])

\* a ring of less than 4 points leaves _centroids as it was; else the centroid is at 1,
\* and an area that the view clips has a second one at 2
_computeCentroid(s, clipped) ==
    IF S57_getGeoData(s.geo) < 4
    THEN s
    ELSE Run(s, [s EXCEPT !._centroids = IF clipped THEN <<1, 2>> ELSE <<1>>])

\* while (TRUE == S57_getNextCentroid(geoData, &x, &y)), from centroidIdx i
RECURSIVE _renderSY_saved(_, _, _)
_renderSY_saved(s, i, rotation) ==
    IF i >= Len(s.geo.centroid) \/ s.proc # "run"
    THEN s
    ELSE _renderSY_saved(_renderSY_POINT_T(s, s.geo.centroid[i + 1], rotation), i + 1, rotation)

\* the loop over _centroids, from i; disp is S52_MAR_DISP_CENTROIDS
RECURSIVE _renderSY_centroids(_, _, _, _, _)
_renderSY_centroids(s, i, offset_x, orient, disp) ==
    LET pt == s._centroids[i + 1]
        one(x) == _renderSY_POINT_T(S57_addCentroid(x, pt), pt + offset_x, orient)
    IN  IF i >= Len(s._centroids) \/ s.proc # "run"
        THEN s
        ELSE IF disp
             THEN _renderSY_centroids(one(s), i + 1, offset_x, orient, disp)
             ELSE one(s)

\* SY on a point, on a line (at the centre of its segment the closest to the centre of
\* the view) and on an area in a cycle that is not PICK; clipped: the extent of the
\* area is not inside the view; offset_x: the offset of the symbol, in projected units
_renderSY(s, orient, offset_x, clipped, disp) ==
    LET npt == S57_getGeoData(s.geo)
        rst(x) == IF clipped THEN S57_newCentroid(x) ELSE x
        new(x) == IF 0 < Len(x._centroids) THEN S57_newCentroid(x) ELSE x
        cmp(x) == _renderSY_centroids(new(_computeCentroid(x, clipped)), 0, offset_x, orient, disp)
        are(x) == IF Len(x.geo.centroid) # 0
                  THEN _renderSY_saved(x, 0, orient + x._north)
                  ELSE cmp(x)
    IN  IF npt < s.geo.dataSize
        THEN Return(g_assert0(s), FALSE_)
        ELSE IF 0 = npt
        THEN Return(s, FALSE_)
        ELSE CASE s.geo.obj_t = "POINT_T" ->
                      Return(_renderSY_POINT_T(s, 1, orient + s._north), TRUE_)
               [] s.geo.obj_t = "LINES_T" ->
                      Return(_renderSY_POINT_T(s, 1, orient), TRUE_)
               [] OTHER ->
                      Return(are(rst(s)), TRUE_)

\* ------------------------------------------------------- state machine
InitOver(objs) ==
    /\ assertOn \in BOOLEAN
    /\ proc = "run"
    /\ _doInit = TRUE /\ _ctxValidated = FALSE /\ _symbCreated = FALSE
    /\ _objPick = <<>> /\ _objPickNULL = TRUE
    /\ _crnt_GL_cycle = S52_GL_NONE /\ _GL_BEGIN = FALSE
    /\ _identity_MODELVIEW = FALSE
    /\ _mode = GL_PROJECTION /\ _mvmTop = 0 /\ _pjmTop = 0
    /\ _crntMat = <<"NULL", 0>>
    /\ _mvm = [i \in MatrixSlots |-> ZeroMat]
    /\ _pjm = [i \in MatrixSlots |-> ZeroMat]
    /\ _north = 0 /\ _vp = 0 /\ _fb_pixels = FALSE /\ _fb_pixels_size = 0
    /\ _fb_update = TRUE
    /\ fb = [by |-> {}, r |-> {0}]
    /\ tex = [by |-> {}, r |-> {0}]
    /\ _cIdx = 0
    /\ DList = [o \in objs |-> 0]
    /\ glBuffers = {}
    /\ uploads = [o \in objs |-> 0]
    /\ highlight = [o \in objs |-> FALSE]
    /\ drawn = <<>>
    /\ hostCycle = S52_GL_NONE
    /\ nBad = 0
    /\ op = [name |-> "", cycle |-> S52_GL_NONE, obj |-> 0, oos |-> FALSE]
    /\ ret = NoRet
    /\ gl = <<>>
    /\ S57_prim = TessPrim
    /\ geo = NewGeo("POINT_T", 0, <<>>)
    /\ glDraw = <<>>
    /\ idWrong = FALSE
    /\ atlas = [nodes |-> <<<<1, 1, MaxAtlas - 2>>>>, regions |-> <<>>, used |-> 0]
    /\ _pmax = [u |-> -INFINITY, v |-> -INFINITY]
    /\ _pmin = [u |-> INFINITY, v |-> INFINITY]
    /\ PJ = [_doInit |-> TRUE, _pjsrc |-> NULL_, _pjdst |-> <<>>, _pjstr |-> <<>>]
    /\ _centroids = <<>>
    /\ sy = [prev |-> <<>>, crnt |-> <<>>]

Init == InitOver(Objs)

Running == proc = "run"

\* the host calls begin while it has a cycle open, or end for a cycle it has not open
OutOfSyncBegin == S52_GL_NONE # hostCycle
OutOfSyncEnd(cycle) == cycle # hostCycle

\* the host's side of a begin / end call
HostCall(s, out, cycle) ==
    IF out
    THEN [s EXCEPT !.nBad = @ + 1, !.op.oos = TRUE]
    ELSE [s EXCEPT !.hostCycle = cycle]

DoInit ==
    /\ Running
    /\ Becomes(S52_GL_init(Call(State, "init", S52_GL_NONE, 0)))

DoDone ==
    /\ Running
    /\ Becomes(S52_GL_done(Call(State, "done", S52_GL_NONE, 0)))

DoSetView ==
    /\ Running
    /\ \E north \in {0, 1} :
         Becomes(S52_GL_setView(Call(State, "setView", S52_GL_NONE, 0), north))

DoSetDotPitch ==
    /\ Running
    /\ \E wh \in 1 .. MaxVP :
         Becomes(S52_GL_setDotPitch(Call(State, "setDotPitch", S52_GL_NONE, 0), wh))

DoSetViewPort(vps) ==
    /\ Running
    /\ \E wh \in vps :
         Becomes(S52_GL_setViewPort(Call(State, "setViewPort", S52_GL_NONE, 0), wh))

DoBegin(cycles, vps, reds, maxBad) ==
    /\ Running
    /\ OutOfSyncBegin => nBad < maxBad
    /\ \E cycle \in cycles, glvp \in vps, nodata \in BOOLEAN, nodataR \in reds :
         LET s == HostCall(Call(State, "begin", cycle, 0), OutOfSyncBegin, cycle)
         IN  Becomes(S52_GL_begin([s EXCEPT !.drawn = <<>>,
                                            !.sy = [prev |-> @.crnt, crnt |-> <<>>]],
                                  cycle, glvp, nodata, nodataR))

DoEnd(maxBad) ==
    /\ Running
    /\ \E cycle \in S52_GL_cycle :
         /\ OutOfSyncEnd(cycle) => nBad < maxBad
         /\ LET s == HostCall(Call(State, "end", cycle, 0), OutOfSyncEnd(cycle), S52_GL_NONE)
            IN  Becomes(S52_GL_end(s, cycle))

DoDraw(cycles, objs, gens, reds, covers) ==
    /\ Running
    /\ hostCycle \in cycles
    /\ Len(drawn) < MaxDraw
    /\ \E obj \in objs, gen \in gens, chartR \in reds, cover \in covers :
         \E keep \in IF cover THEN SUBSET fb.r ELSE {{}} :
            Becomes(S52_GL_draw(Call(State, "draw", S52_GL_NONE, obj),
                                obj, gen, chartR, cover, keep))

\* the long scene: the host draws the objects in order in a PICK cycle, each object
\* once; the first WrapCover of them lie under the cursor
DoDrawNext ==
    /\ Running
    /\ hostCycle = S52_GL_PICK
    /\ Len(drawn) < WrapObj
    /\ DList[Len(drawn) + 1] = 0
    /\ LET obj   == Len(drawn) + 1
           cover == obj <= WrapCover
       IN  \E keep \in IF cover THEN SUBSET fb.r ELSE {{}} :
              Becomes(S52_GL_draw(Call(State, "draw", S52_GL_NONE, obj),
                                  obj, TRUE, 0, cover, keep))

DoDel ==
    /\ Running
    /\ \E obj \in Objs :
         Becomes(S52_GL_del(Call(State, "del", S52_GL_NONE, obj), obj))

DoGetNameObjPick ==
    /\ Running
    /\ Becomes(S52_GL_getNameObjPick(Call(State, "getNameObjPick", S52_GL_NONE, 0)))

DoDrawStrWin ==
    /\ Running
    /\ Becomes(S52_GL_drawStrWin(Call(State, "drawStrWin", S52_GL_NONE, 0)))

\* The cycle protocol: any order of calls, the host out of sync at most MaxBad times.
Next ==
    \/ DoInit \/ DoDone \/ DoSetView \/ DoSetDotPitch \/ DoSetViewPort(1 .. MaxVP)
    \/ DoBegin(S52_GL_cycle, 1 .. MaxVP, {0}, MaxBad) \/ DoEnd(MaxBad)

Spec == Init /\ [][Next]_vars

\* The framebuffer and its snapshot: cycles in sync, with text drawn into the window.
NextFB ==
    \/ DoSetDotPitch \/ DoSetViewPort(1 .. MaxVP) \/ DoDone
    \/ DoBegin(S52_GL_cycle, 1 .. MaxVP, {0}, 0) \/ DoEnd(0) \/ DoDrawStrWin

SpecFB == Init /\ [][NextFB]_vars

\* The primitive buffers: objects drawn in and out of DRAW cycles, glGenBuffers()
\* may fail, objects are deleted.
NextVBO ==
    \/ DoSetViewPort({MaxVP})
    \/ DoBegin({S52_GL_DRAW}, {MaxVP}, {0}, 0) \/ DoEnd(0)
    \/ DoDraw({S52_GL_NONE, S52_GL_DRAW}, Objs, BOOLEAN, {0}, {FALSE}) \/ DoDel

SpecVBO == Init /\ [][NextVBO]_vars

\* The cursor pick: PICK cycles over objects that may lie under the cursor.
NextPick ==
    \/ DoSetViewPort({MaxVP})
    \/ DoBegin({S52_GL_PICK}, {MaxVP}, {0}, 0) \/ DoEnd(0)
    \/ DoDraw({S52_GL_PICK}, Objs, {TRUE}, {0}, BOOLEAN) \/ DoGetNameObjPick

SpecPick == Init /\ [][NextPick]_vars

\* The snapshot across cycles: DRAW, PICK and LAST cycles in sync, objects drawn in
\* DRAW and in PICK cycles.
NextSnap ==
    \/ DoSetViewPort({MaxVP})
    \/ DoBegin(S52_GL_cycle, {MaxVP}, {0}, 0) \/ DoEnd(0)
    \/ DoDraw({S52_GL_DRAW, S52_GL_PICK}, Objs, {TRUE}, {0}, {TRUE})

SpecSnap == Init /\ [][NextSnap]_vars

\* The long scene: a PICK cycle that draws up to WrapObj objects.
NextWrap ==
    \/ DoSetViewPort({MaxVP})
    \/ DoBegin({S52_GL_PICK}, {MaxVP}, {0}, 0) \/ DoEnd(0)
    \/ DoDrawNext \/ DoGetNameObjPick

InitWrap == InitOver(WrapObjs)

SpecWrap == InitWrap /\ [][NextWrap]_vars

\* ------------------------------------------- the S57_prim calls, alone
\* The primitive holder: any order of the calls on one primitive. S57_prim keeps a
\* vertex as given: one value stands for all of them here.
NextPrim ==
    \/ /\ Running
       /\ Becomes(S57_initPrim(Call(State, "initPrim", S52_GL_NONE, 0)))
    \/ /\ Running
       /\ Len(S57_prim.list) < MaxSpan
       /\ \E mode \in PrimModes, garbage \in Indeterminate :
            Becomes(S57_begPrim(Call(State, "begPrim", S52_GL_NONE, 0), mode, garbage))
    \/ /\ Running
       /\ Len(S57_prim.vertex) < MaxVert
       /\ \E v \in {MaxCoord} :
            Becomes(S57_addPrimVertex(Call(State, "addPrimVertex", S52_GL_NONE, 0), v))
    \/ /\ Running
       /\ Becomes(S57_endPrim(Call(State, "endPrim", S52_GL_NONE, 0)))

SpecPrim == Init /\ [][NextPrim]_vars

\* --------------------------------------- symbols and patterns, drawn
\* the vector programs of at most n commands
RECURSIVE HPGLPrograms(_)
HPGLPrograms(n) ==
    IF n = 0
    THEN {<<>>}
    ELSE HPGLPrograms(n - 1) \cup
         {Append(c, d) : c \in HPGLPrograms(n - 1), d \in HPGLCmds}

\* _createSymb() builds the primitive of a symbol, or of a pattern, of the PLib
DoBuildSymbDL ==
    /\ Running
    /\ hostCycle = S52_GL_NONE
    /\ \E cmds \in HPGLPrograms(MaxCmd) \ {<<>>}, garbage \in Indeterminate :
         Becomes(_buildSymbDL(Call(State, "buildSymbDL", S52_GL_NONE, 0), cmds, garbage))

\* the primitive is the one of a symbol: it is drawn at a position, by _glCallList()
DoRenderSY ==
    /\ Running
    /\ hostCycle = S52_GL_DRAW
    /\ \E x \in Coords, rotation \in {0, 1} :
         Becomes(_renderSY_POINT_T(Call(State, "renderSY", S52_GL_NONE, 0), x, rotation))

\* the primitive is the one of a pattern: it is drawn by _renderTile()
DoRenderAP ==
    /\ Running
    /\ hostCycle = S52_GL_DRAW
    /\ \E offsetXpx \in Coords :
         Becomes(_renderAP_es2(Call(State, "renderAP", S52_GL_NONE, 0), offsetXpx))

\* Symbols and patterns: built from vector programs, drawn in DRAW cycles.
NextSymb ==
    \/ DoSetViewPort({MaxVP})
    \/ DoBegin({S52_GL_DRAW}, {MaxVP}, {0}, 0) \/ DoEnd(0)
    \/ DoBuildSymbDL \/ DoRenderSY \/ DoRenderAP

SpecSymb == Init /\ [][NextSymb]_vars

\* The matrix stacks: the calls that work on them, around the primitive of an area.
NextMat ==
    \/ DoInit \/ DoSetView
    \/ DoBegin({S52_GL_DRAW}, {MaxVP}, {0}, 0) \/ DoEnd(0)
    \/ DoRenderSY \/ DoRenderAP

SpecMat == Init /\ [][NextMat]_vars

\* ------------------------------------- the symbol of an area, cycle after cycle
\* The area of a cell is loaded between the cycles (a ring of 4 points): the cycles
\* before it had another set of objects. The object is drawn once in a cycle; sy records
\* what the call was given (the view, the orientation of the object, the offset of its
\* symbol, whether the view clips it, S52_MAR_DISP_CENTROIDS) and the calls it sent to
\* the GPU.
NextArea ==
    \/ /\ Running
       /\ hostCycle = S52_GL_NONE
       /\ LET s == Call(State, "S57_setAREAS", S52_GL_NONE, 0)
          IN  Becomes(S57_setAREAS([s EXCEPT !.sy = [prev |-> <<>>, crnt |-> <<>>]], <<4>>))
    \/ DoSetView
    \/ DoBegin({S52_GL_DRAW}, {MaxVP}, {0}, 0) \/ DoEnd(0)
    \/ /\ Running
       /\ hostCycle = S52_GL_DRAW
       /\ sy.crnt = <<>>
       /\ \E orient \in {0, 1}, offset_x \in {0, 1}, clipped \in BOOLEAN, disp \in BOOLEAN :
            LET t == _renderSY(Call(State, "_renderSY", S52_GL_DRAW, 0),
                               orient, offset_x, clipped, disp)
            IN  Becomes([t EXCEPT !.sy.crnt =
                             << [given |-> <<t._north, orient, offset_x, clipped, disp>>,
                                 calls |-> t.glDraw] >>])

SpecArea == Init /\ [][NextArea]_vars

\* ------------------------------------- attributes and touch references of a feature
\* a feature is made, its attributes are set and read, other features (1 .. MaxGeo) are
\* set as the ones it touches; op.obj is the name of the attribute, or the feature given
NextAtt ==
    \/ /\ Running
       /\ Becomes(S57_setPOINT(Call(State, "S57_setPOINT", S52_GL_NONE, 0)))
    \/ /\ Running
       /\ \E name \in AttNames, val \in AttVals :
            Becomes(S57_setAtt(Call(State, "S57_setAtt", S52_GL_NONE, name), name, val))
    \/ /\ Running
       /\ \E att_name \in AttNames :
            Becomes(S57_getAttVal(Call(State, "S57_getAttVal", S52_GL_NONE, att_name), att_name))
    \/ /\ Running
       /\ \E touch \in 1 .. MaxGeo :
            Becomes(S57_setTouchTOPMAR(Call(State, "S57_setTouchTOPMAR", S52_GL_NONE, touch), touch))
    \/ /\ Running
       /\ \E touch \in 1 .. MaxGeo :
            Becomes(S57_setTouchLIGHTS(Call(State, "S57_setTouchLIGHTS", S52_GL_NONE, touch), touch))
    \/ /\ Running
       /\ \E touch \in 1 .. MaxGeo :
            Becomes(S57_setTouchDEPARE(Call(State, "S57_setTouchDEPARE", S52_GL_NONE, touch), touch))
    \/ /\ Running
       /\ \E touch \in 1 .. MaxGeo :
            Becomes(S57_setTouchDEPVAL(Call(State, "S57_setTouchDEPVAL", S52_GL_NONE, touch), touch))

SpecAtt == Init /\ [][NextAtt]_vars

\* ------------------------------------------------------ size of a geometry
\* a geometry of each kind is made, with a capacity up to MaxGeo, its size is set and
\* its rings are asked for; op.obj is the size given, or the ring asked for
NextGeo ==
    \/ /\ Running
       /\ Becomes(S57_setPOINT(Call(State, "S57_setPOINT", S52_GL_NONE, 0)))
    \/ /\ Running
       /\ \E xyznbr \in 0 .. MaxGeo :
            Becomes(S57_setLINES(Call(State, "S57_setLINES", S52_GL_NONE, 0), xyznbr))
    \/ /\ Running
       /\ \E xyznbr \in 0 .. MaxGeo, ringnbr \in 1 .. 2 :
            Becomes(S57_setAREAS(Call(State, "S57_setAREAS", S52_GL_NONE, 0),
                                 [i \in 1 .. ringnbr |-> xyznbr]))
    \/ /\ Running
       /\ Becomes(S57_set_META(Call(State, "S57_set_META", S52_GL_NONE, 0)))
    \/ /\ Running
       /\ \E size \in 0 .. MaxGeo + 1 :
            Becomes(S57_setGeoSize(Call(State, "S57_setGeoSize", S52_GL_NONE, size), size))
    \/ /\ Running
       /\ \E ringNo \in 0 .. MaxGeo :
            Becomes(S57_getGeoData_ringNo(Call(State, "S57_getGeoData", S52_GL_NONE, ringNo), ringNo))

SpecGeo == Init /\ [][NextGeo]_vars

\* ---------------------------------------------------- extent of a geometry
\* a feature is made and its extent is set
NextExt ==
    \/ /\ Running
       /\ Becomes(S57_set_META(Call(State, "S57_set_META", S52_GL_NONE, 0)))
    \/ /\ Running
       /\ \E x1 \in ExtCoords, y1 \in ExtCoords, x2 \in ExtCoords, y2 \in ExtCoords :
            Becomes(S57_setExt(Call(State, "S57_setExt", S52_GL_NONE, 0), x1, y1, x2, y2))

SpecExt == Init /\ [][NextExt]_vars

\* ----------------------------------------------------------- projection
\* the origin is set, points are projected, the projection is torn down; op.obj is the
\* origin given
NextPrj ==
    \/ /\ Running
       /\ \E lat \in {0, 45, 90}, lon \in {0, 1} :
            Becomes(S57_setMercPrj(Call(State, "S57_setMercPrj", S52_GL_NONE, <<lat, lon>>),
                                   lat, lon))
    \/ /\ Running
       /\ \E data \in {<<>>, <<0>>, <<45, 0>>, <<90>>} :
            Becomes(S57_geo2prj3dv(Call(State, "S57_geo2prj3dv", S52_GL_NONE, data), data))
    \/ /\ Running
       /\ Becomes(S57_donePROJ(Call(State, "S57_donePROJ", S52_GL_NONE, 0)))

SpecPrj == Init /\ [][NextPrj]_vars

\* --------------------------------------------------------- clip to view
\* the view rectangle is projected (square viewport: dx = dy), segments are clipped
\* to it; op.obj is the segment given
NextClip ==
    \/ /\ Running
       /\ \E centerLat \in 1 .. 2, centerLon \in 1 .. 2, rangeDeg \in 0 .. 1 :
            Becomes(Return([Call(State, "_doProjection", S52_GL_NONE, 0) EXCEPT
                                !._pmin = [u |-> centerLon - rangeDeg, v |-> centerLat - rangeDeg],
                                !._pmax = [u |-> centerLon + rangeDeg, v |-> centerLat + rangeDeg]],
                           TRUE_))
    \/ /\ Running
       /\ \E x1 \in -1 .. MaxClip, y1 \in -1 .. MaxClip, x2 \in -1 .. MaxClip, y2 \in -1 .. MaxClip :
            Becomes(_clipToView(Call(State, "_clipToView", S52_GL_NONE, <<x1, y1, x2, y2>>),
                                x1, y1, x2, y2))

SpecClip == Init /\ [][NextClip]_vars

\* -------------------------------------------------------- texture atlas
\* regions are asked for, at most MaxRegions between two clears; op.obj is the width and
\* height given
NextAtlas ==
    \/ /\ Running
       /\ Len(atlas.regions) < MaxRegions
       /\ \E width \in 0 .. MaxRegion, height \in 0 .. MaxRegion :
            Becomes(texture_atlas_get_region(
                        Call(State, "texture_atlas_get_region", S52_GL_NONE, <<width, height>>),
                        width, height))
    \/ /\ Running
       /\ Becomes(texture_atlas_clear(Call(State, "texture_atlas_clear", S52_GL_NONE, 0)))

SpecAtlas == Init /\ [][NextAtlas]_vars

\* ================================================================ claims

\* C1: once begin(c) has started cycle c, the current cycle stays c until end(c)
\* is called; no begin made before that end replaces it or starts a second cycle.
C1_OneCycleAtATime ==
    [][(_crnt_GL_cycle # S52_GL_NONE
        /\ ~(op'.name = "end" /\ op'.cycle = _crnt_GL_cycle))
       => _crnt_GL_cycle' = _crnt_GL_cycle]_vars

\* C2: a begin or end call made out of sync returns failure to the caller.
C2_OutOfSyncFails ==
    (op.name \in {"begin", "end"} /\ op.oos) => ret = FALSE_

\* C3: after any sequence of completed cycles, with view changes in between, the
\* current cycle is NONE and both matrix stacks are at the depth they started with.
C3_NoAccumulatedState ==
    (proc = "run" /\ nBad = 0 /\ hostCycle = S52_GL_NONE)
    => (_crnt_GL_cycle = S52_GL_NONE /\ _mvmTop = 0 /\ _pjmTop = 0)

C3_Witness ==
    /\ proc = "run" /\ nBad = 0 /\ hostCycle = S52_GL_NONE
    /\ op.name = "end" /\ op.cycle = S52_GL_DRAW /\ ret = TRUE_
    /\ _north = 1 /\ _symbCreated /\ ~_doInit
    /\ _crnt_GL_cycle = S52_GL_NONE /\ _mvmTop = 0 /\ _pjmTop = 0

\* C4 as written: after end(c) returns, for every cycle c, the snapshot is flagged stale.
C4_EveryEndFlagsStale ==
    (op.name = "end" /\ ret = TRUE_) => _fb_update

\* C4 amended: after end(DRAW) returns the snapshot is flagged stale; end(LAST) and
\* end(PICK) leave the flag as it was.
C4_EndDrawFlagsStale ==
    [][(op'.name = "end" /\ ret' = TRUE_)
       => _fb_update' = (IF op'.cycle = S52_GL_DRAW THEN TRUE ELSE _fb_update)]_vars

C4_Witness ==
    /\ op.name = "end" /\ op.cycle = S52_GL_DRAW /\ ret = TRUE_ /\ _fb_update
    /\ nBad = 0 /\ _fb_pixels

C6_DistinctIndices ==
    (op.name = "draw" /\ ret = TRUE_ /\ _crnt_GL_cycle = S52_GL_PICK)
    => LET n == Len(drawn)
       IN  \A i \in 1 .. n - 1 :
              drawn[i][1] # drawn[n][1] => drawn[i][2] # drawn[n][2]

\* C7: in every PICK cycle the k-th object drawn receives colour index k.
C7_KthIndexIsK ==
    (op.name = "draw" /\ ret = TRUE_ /\ _crnt_GL_cycle = S52_GL_PICK)
    => drawn[Len(drawn)][2] = Len(drawn)

\* C8: pick_name reports the object appended last to the pick list, that is the last
\* object drawn in the PICK cycle whose colour index was found in the region read
\* back, and highlights it; it reports nothing when no index was found.
C8_PickNameIsLastFound ==
    (op.name = "getNameObjPick" /\ proc = "run")
    => LET hits == SelectSeq(drawn, LAMBDA d : d[3])
       IN  IF hits = <<>>
           THEN ret = 0
           ELSE /\ ret = S57_getGeoID(hits[Len(hits)][1])
                /\ highlight[hits[Len(hits)][1]]
                /\ _objPick[Len(_objPick)] = hits[Len(hits)][1]

C8_Witness ==
    /\ op.name = "getNameObjPick" /\ proc = "run"
    /\ Len(drawn) = 2 /\ drawn[1][3] /\ drawn[2][3]
    /\ drawn[1][1] # drawn[2][1]
    /\ ret = S57_getGeoID(drawn[2][1])

\* C9: a further call to init, after its first success, returns success and
\* leaves the renderer state unchanged.
C9_InitIdempotent ==
    [][(op'.name = "init" /\ ~_doInit)
       => /\ ret' = TRUE_
          /\ [State' EXCEPT !.op = op, !.ret = ret, !.gl = gl] = State]_vars

\* C10: a primitive buffer is uploaded exactly once while its handle stays valid:
\* the draw that finds no handle creates the buffer and uploads it, every draw that
\* finds the cached handle binds it without creating or uploading again, and every
\* valid handle names a live buffer that was uploaded exactly once.
C10_UploadedOnce ==
    [][(op'.name = "draw" /\ ret' = TRUE_)
       => LET prim == op'.obj
          IN  /\ DList[prim] # 0
                 => /\ gl' = <<"glBindBuffer", "glDrawArrays">>
                    /\ DList'[prim] = DList[prim]
                    /\ uploads'[prim] = uploads[prim]
              /\ (DList[prim] = 0 /\ DList'[prim] # 0)
                 => gl' = <<"glGenBuffers", "glBufferData", "glBindBuffer", "glDrawArrays">>
              /\ \A o \in Objs :
                    DList'[o] # 0 => (uploads'[o] = 1 /\ DList'[o] \in glBuffers')]_vars

C10_Witness ==
    /\ op.name = "draw" /\ ret = TRUE_
    /\ gl = <<"glBindBuffer", "glDrawArrays">>
    /\ DList[op.obj] # 0 /\ uploads[op.obj] = 1
    /\ Len(drawn) = 2 /\ drawn[1][1] = drawn[2][1]

\* C11: when glGenBuffers() returns 0 the draw of the primitive is skipped (no draw
\* call, no abort), the cached handle stays invalid, and a draw of a primitive
\* without handle always attempts the creation again.
C11_UploadFailureSkipsDraw ==
    [][(op'.name = "draw" /\ DList[op'.obj] = 0 /\ gl' # <<>>)
       => /\ gl'[1] = "glGenBuffers"
          /\ Len(gl') = 1
             => (proc' = "run" /\ ret' = TRUE_ /\ DList'[op'.obj] = 0)]_vars

\* C12: whenever a primitive is drawn, by _glCallList() or by _renderTile(), the calls
\* sent to the GPU are those of C12_Expected: the modelview is uploaded, then span
\* after span, a _QUADRIC_TRANSLATE span uploads the modelview translated by its one
\* vertex and is not drawn, any other span is drawn by glDrawArrays().
RECURSIVE C12_Expected(_, _, _, _)
C12_Expected(list, vertex, m, j) ==
    IF j > Len(list)
    THEN <<>>
    ELSE IF list[j].mode = _QUADRIC_TRANSLATE
         THEN <<GLCall("glUniformMatrix4fv", "", 0, 0, Append(m, <<"T", vertex[list[j].first + 1]>>))>>
              \o C12_Expected(list, vertex, Append(m, <<"T", vertex[list[j].first + 1]>>), j + 1)
         ELSE <<GLCall("glDrawArrays", list[j].mode, list[j].first, list[j].count, Identity)>>
              \o C12_Expected(list, vertex, m, j + 1)

C12_TranslateSpansApplied ==
    op.name \in {"renderSY", "renderAP"}
    => /\ proc = "run"
       /\ glDraw # <<>>
       /\ LET expected == <<glDraw[1]>>
                           \o C12_Expected(S57_prim.list, S57_prim.vertex, glDraw[1].m, 1)
          IN  /\ Len(expected) <= Len(glDraw)
              /\ SubSeq(glDraw, 1, Len(expected)) = expected

\* the sum of the counts of the spans of list that S57_endPrim() has closed (all: FALSE)
\* or of all its spans (all: TRUE), plus extra for each _QUADRIC_TRANSLATE span
RECURSIVE C13_Sum(_, _, _)
C13_Sum(list, all, extra) ==
    IF list = <<>> THEN 0
    ELSE LET p == Head(list)
         IN  (IF all \/ p.ended
              THEN p.count + (IF p.mode = _QUADRIC_TRANSLATE THEN extra ELSE 0)
              ELSE 0) + C13_Sum(Tail(list), all, extra)

\* C13 (as stated): the sum of all span counts plus one for each _QUADRIC_TRANSLATE span
\* is at most the number of vertices; read here in its most favourable way, for the
\* primitives whose spans are all closed.
C13_SumOfCounts ==
    (proc = "run" /\ \A i \in DOMAIN S57_prim.list : S57_prim.list[i].ended)
    => C13_Sum(S57_prim.list, TRUE, 1) <= Len(S57_prim.vertex)

\* C13 (amended): after any sequence of S57_begPrim(), S57_addPrimVertex() and
\* S57_endPrim() calls in which no S57_endPrim() met an empty span list, the sum of the
\* counts of the closed spans is at most the number of vertices; the vertex of a
\* _QUADRIC_TRANSLATE span is part of its count.
C13_ClosedSpansWithinVertices ==
    proc = "run" => C13_Sum(S57_prim.list, FALSE, 0) <= Len(S57_prim.vertex)

\* a translate span of one vertex followed by a span of lines, both closed, that use up
\* the vertex array
C13_Witness ==
    /\ proc = "run"
    /\ op.name = "endPrim"
    /\ Len(S57_prim.list) = 2
    /\ S57_prim.list[1] = [mode |-> _QUADRIC_TRANSLATE, first |-> 0, count |-> 1, ended |-> TRUE]
    /\ S57_prim.list[2].mode = "GL_LINES" /\ S57_prim.list[2].ended
    /\ S57_prim.list[2].count = 2
    /\ C13_Sum(S57_prim.list, FALSE, 0) = Len(S57_prim.vertex)

\* C14: once the matrices are initialised, _glPushMatrix(); _glPushMatrix();
\* _glPopMatrix(); _glPopMatrix() on the stack of the current mode, where it has room for
\* two more matrices, leaves the depth of both
\* stacks, the matrix on top of each and the matrix that _crntMat points to (the one
\* _glTranslated(), _glLoadIdentity() .. modify) as they were.
C14_PushPushPopPopIsIdentity ==
    (/\ proc = "run"
     /\ ValidMat(_crntMat)
     /\ _mvmTop \in MatrixSlots /\ _pjmTop \in MatrixSlots
     /\ (IF _mode = GL_MODELVIEW THEN _mvmTop ELSE _pjmTop) + 2 \in MatrixSlots)
    => LET t == _glPopMatrix(_glPopMatrix(_glPushMatrix(_glPushMatrix(State))))
       IN  /\ t.proc = "run"
           /\ t._mvmTop = _mvmTop /\ t._pjmTop = _pjmTop
           /\ t._mvm[t._mvmTop] = _mvm[_mvmTop] /\ t._pjm[t._pjmTop] = _pjm[_pjmTop]
           /\ t._crntMat = _crntMat

\* C15: whenever _identity_MODELVIEW is set, the matrix on top of the modelview stack is
\* the identity, between the public calls and after each matrix operation inside them.
C15_FlagMeansIdentity ==
    /\ ~idWrong
    /\ (proc = "run" /\ _identity_MODELVIEW /\ _mvmTop \in MatrixSlots)
       => _mvm[_mvmTop] = Identity

\* the flag is set again after a pattern was drawn under its own translation and scale
C15_Witness ==
    /\ proc = "run"
    /\ op.name = "renderAP"
    /\ _identity_MODELVIEW
    /\ _mvm[_mvmTop] = Identity
    /\ _mvm[_mvmTop + 1] # Identity

\* C16: two consecutive DRAW cycles with the same view, in which the same object is given
\* the same to _renderSY() (orientation, offset of the symbol, clipping by the view,
\* S52_MAR_DISP_CENTROIDS), send the same calls to the GPU: the same modelview matrices
\* (position and orientation) and the same spans of the primitive.
C16_SameDrawCalls ==
    (/\ proc = "run"
     /\ sy.prev # <<>> /\ sy.crnt # <<>>
     /\ sy.prev[1].given = sy.crnt[1].given)
    => sy.prev[1].calls = sy.crnt[1].calls

\* C17: S57_setTouchTOPMAR() / S57_setTouchLIGHTS() of a feature whose reference is set
\* to another feature returns FALSE and leaves the reference as it is; given the feature
\* that is already set it returns TRUE and changes nothing.
C17_TouchSetOnce ==
    [][/\ (op'.name = "S57_setTouchTOPMAR" /\ geo.touch.TOPMAR # 0)
          => IF op'.obj = geo.touch.TOPMAR
             THEN ret' = TRUE_ /\ geo' = geo
             ELSE ret' = FALSE_ /\ geo' = geo
       /\ (op'.name = "S57_setTouchLIGHTS" /\ geo.touch.LIGHTS # 0)
          => IF op'.obj = geo.touch.LIGHTS
             THEN ret' = TRUE_ /\ geo' = geo
             ELSE ret' = FALSE_ /\ geo' = geo]_vars

\* C18: S57_getAttVal(geo, k) returns NULL on every call made while the value stored for
\* k is EMPTY_NUMBER_MARKER or the empty string.
C18_AbsentWhenOmittedOrEmpty ==
    (op.name = "S57_getAttVal" /\ geo.attribs[op.obj] \in {EMPTY_NUMBER_MARKER, ""})
    => ret = NULL_

\* C19: a call S57_setGeoSize(geo, size) that returns leaves dataSize at most the capacity
\* of the geometry (1 for a point, linexyznbr for a line, ringxyznbr[0] for an area, 0 for
\* a meta object), and leaves dataSize as it was when size is more than the capacity.
C19_SizeWithinCapacity ==
    [][(op'.name = "S57_setGeoSize" /\ proc' = "run")
       => /\ geo'.dataSize <= S57_getGeoData(geo')
          /\ op'.obj > S57_getGeoData(geo) => geo'.dataSize = geo.dataSize]_vars

\* C20: the extent that a call of S57_setExt() which returns TRUE has stored is finite and
\* canonical: x1 <= x2 (W <= E) and y1 <= y2 (S <= N).
C20_ExtentStoredIsCanonical ==
    (op.name = "S57_setExt" /\ proc = "run" /\ ret = TRUE_)
    => /\ ~isinf(geo.rect.x1) /\ ~isinf(geo.rect.y1)
       /\ ~isinf(geo.rect.x2) /\ ~isinf(geo.rect.y2)
       /\ geo.rect.x1 <= geo.rect.x2
       /\ geo.rect.y1 <= geo.rect.y2

\* C21: a call of S57_setMercPrj() made while the Mercator projection is set changes
\* nothing of the projection and returns FALSE.
C21_OriginSetOnce ==
    [][(op'.name = "S57_setMercPrj" /\ PJ._pjstr # <<>>)
       => (PJ' = PJ /\ ret' = FALSE_ /\ proc' = "run")]_vars

\* a second call, with another origin than the one that is set
C21_Witness ==
    /\ op.name = "S57_setMercPrj"
    /\ ret = FALSE_
    /\ PJ._pjdst # <<>>
    /\ PJ._pjstr # op.obj

\* C22: S57_geo2prj3dv() called while no Mercator projection is set returns FALSE, and
\* the process runs on.
C22_ProjectionNotSet ==
    [][(op'.name = "S57_geo2prj3dv" /\ PJ._pjdst = <<>>)
       => (ret' = FALSE_ /\ proc' = "run")]_vars

\* the segment given and the view rectangle have a point in common: their extents
\* overlap and the corners of the rectangle are not all strictly on one side of the
\* line through the segment
C23_Side(cx, cy) ==
    (op.obj[3] - op.obj[1]) * (cy - op.obj[2]) - (op.obj[4] - op.obj[2]) * (cx - op.obj[1])

C23_Corners == {<<_pmin.u, _pmin.v>>, <<_pmin.u, _pmax.v>>, <<_pmax.u, _pmin.v>>, <<_pmax.u, _pmax.v>>}

C23_Intersects ==
    /\ (op.obj[1] >= _pmin.u \/ op.obj[3] >= _pmin.u) /\ (op.obj[1] <= _pmax.u \/ op.obj[3] <= _pmax.u)
    /\ (op.obj[2] >= _pmin.v \/ op.obj[4] >= _pmin.v) /\ (op.obj[2] <= _pmax.v \/ op.obj[4] <= _pmax.v)
    /\ ~ \A c \in C23_Corners : C23_Side(c[1], c[2]) > 0
    /\ ~ \A c \in C23_Corners : C23_Side(c[1], c[2]) < 0

\* C23: with a view rectangle of positive width and height, when _clipToView() returns
\* TRUE both endpoints of the segment it leaves lie within or on the view rectangle, and
\* when the segment given has no point in common with the view rectangle it returns FALSE.
C23_ClipCorrect ==
    (op.name = "_clipToView" /\ _pmin.u < _pmax.u /\ _pmin.v < _pmax.v) =>
        /\ ret.accept = TRUE_ =>
              /\ _pmin.u <= ret.seg[1] /\ ret.seg[1] <= _pmax.u
              /\ _pmin.v <= ret.seg[2] /\ ret.seg[2] <= _pmax.v
              /\ _pmin.u <= ret.seg[3] /\ ret.seg[3] <= _pmax.u
              /\ _pmin.v <= ret.seg[4] /\ ret.seg[4] <= _pmax.v
        /\ ~C23_Intersects => ret.accept = FALSE_

\* C24: a draw of an object whose command list holds an unresolved CS command leaves
\* the process running, and the object is drawn (it is recorded as drawn and its
\* area fill reaches the colour buffer calls).
C24_UnresolvedCSSkipped ==
    [][(op'.name = "draw" /\ \E i \in DOMAIN CmdOf(op'.obj) : CmdOf(op'.obj)[i] = S52_CMD_CND_SY)
       => (proc' = "run" /\ ret' = TRUE_ /\ Len(drawn') = Len(drawn) + 1)]_vars

\* C25: the call that builds the symbol cache (_symbCreated becomes TRUE) or the
\* texture of a pattern (the tile rendered by _renderAP_es2() at the first use of the
\* pattern) is made while no cycle is in progress.
C25_NoBuildInCycle ==
    [][((~_symbCreated /\ _symbCreated') \/ op'.name = "renderAP")
       => _crnt_GL_cycle = S52_GL_NONE]_vars

\* C26: a begin(LAST) that follows the end of a PICK cycle, run after a DRAW cycle
\* has drawn into the framebuffer, leaves the colour index drawn last in that PICK
\* cycle out of the snapshot it restores the framebuffer from.
C26_SnapshotIsOfDraw ==
    [][(/\ op'.name = "begin" /\ op'.cycle = S52_GL_LAST /\ ret' = TRUE_
        /\ op.name = "end" /\ op.cycle = S52_GL_PICK /\ drawn # <<>>
        /\ S52_GL_DRAW \in fb.by)
       => drawn[Len(drawn)][2] \notin tex'.r]_vars

\* C27: S57_setTouchTOPMAR(), S57_setTouchLIGHTS(), S57_setTouchDEPARE() or
\* S57_setTouchDEPVAL() of a feature leaves the references that the getters of the other
\* three roles return as they were.
C27_RolesIndependent ==
    [][\A role \in {"TOPMAR", "LIGHTS", "DEPARE", "DEPVAL"} :
          (op'.name \in {"S57_setTouchTOPMAR", "S57_setTouchLIGHTS",
                         "S57_setTouchDEPARE", "S57_setTouchDEPVAL"} \ {"S57_setTouch" \o role})
          => geo'.touch[role] = geo.touch[role]]_vars

\* C28: after every sequence of public calls, begin and end calls made out of sync
\* included, the top index of each matrix stack is one of the MATRIX_STACK_MAX slots of
\* its array.
C28_TopWithinStack ==
    /\ 0 <= _mvmTop /\ _mvmTop < MATRIX_STACK_MAX
    /\ 0 <= _pjmTop /\ _pjmTop < MATRIX_STACK_MAX

\* C29: S57_getGeoData() of an area returns TRUE only for a ring number below the
\* number of rings; for every other ring number it returns FALSE, and no entry past the
\* per-ring arrays is read.
C29_RingWithinCount ==
    [][(op'.name = "S57_getGeoData" /\ geo.obj_t = "AREAS_T")
       => /\ ret' = TRUE_ => op'.obj < Len(geo.ringxyznbr)
          /\ op'.obj >= Len(geo.ringxyznbr) => (ret' = FALSE_ /\ proc' = "run")]_vars

\* C30: the region that a successful texture_atlas_get_region() returns lies inside the
\* atlas, at least one pixel away from each of its edges, and overlaps none of the
\* regions returned before it since the atlas was created or last cleared.
C30_RegionInsideAndFree ==
    (op.name = "texture_atlas_get_region" /\ proc = "run" /\ ret[1] >= 0)
    => /\ 1 <= ret[1] /\ ret[1] + ret[3] <= MaxAtlas - 1
       /\ 1 <= ret[2] /\ ret[2] + ret[4] <= MaxAtlas - 1
       /\ \A k \in 1 .. Len(atlas.regions) - 1 :
             LET r == atlas.regions[k]
             IN  ~ /\ ret[1] < r[1] + r[3] /\ r[1] < ret[1] + ret[3]
                   /\ ret[2] < r[2] + r[4] /\ r[2] < ret[2] + ret[4]

====
